---------------------------- MODULE Spec2Model ----------------------------
(***************************************************************************)
(* Verification model of the signal pipeline of TradingAgents              *)
(* (src/integration): the TradingSignal schema, the Redis-list signal bus  *)
(* (publish_signal / fetch_latest_signal), the CSV decision ledger, the    *)
(* offline log-integrity validator and the risk gate.                      *)
(*                                                                         *)
(* Number encoding.  The code works on floats; the model uses integers:    *)
(*   prices, stops, distances   whole price units                          *)
(*   size_pct, confidence       tenths        (5 stands for 0.5)           *)
(*   max_capital_pct            hundredths    (5 stands for 0.05)          *)
(*   ATR multiples, min_rr      tenths        (15 stands for 1.5)          *)
(*   ATR                        1e-4 units    (round(atr, 4))              *)
(*   timestamps, clock, ages    whole seconds                              *)
(* Strings that the code converts (upper, strip, isoformat) come from      *)
(* small sets on which the conversion is tabulated.                        *)
(***************************************************************************)
EXTENDS Integers, Sequences, FiniteSets, TLC

VARIABLES
    queue,      \* the Redis list "signals": a sequence of raw payloads, head first
    now,        \* wall clock, seconds
    call,       \* the last SignalBus operation and its arguments
    ret,        \* what the last SignalBus operation returned (or raised)
    cyc,        \* progress of a publish(s); fetchLatest(S); fetchLatest(S) sequence
    pc,         \* concurrent consumers: where each is in fetch_latest_signal
    loc,        \* concurrent consumers: the locals of each call
    calls,      \* concurrent consumers: the calls each has started
    removed,    \* concurrent consumers: list elements removed by LREM so far
    delivered,  \* concurrent consumers: calls that have returned a signal so far
    decisionLog,    \* decision_logs/decision_log.csv: whether it exists, and its rows
    resultsLog,     \* decision_logs/trade_results.csv: whether it exists, and its rows
    nDecisions,     \* append_decision calls made so far
    nResults,       \* append_trade_result calls made so far
    vDecisions,     \* validator: the rows load_decisions() returned
    vResults,       \* validator: the rows load_trade_results() returned
    exitCode,       \* validator: what validate_integrity() returned (-1: not run)
    rSignal,        \* risk gate: the signal object handed to apply_risk
    rSignal0,       \* risk gate: a copy of that signal taken before the call
    rCandles,       \* risk gate: the candle window
    rCfg,           \* risk gate: the configuration dict
    rOut,           \* risk gate: "pending", or how apply_risk ended
    aRes,           \* compute_atr: "pending", or what the direct call produced
    gSymbol,        \* generator: the symbol handed to generate_signal
    gCandles,       \* generator: the window get_candles() gave it
    gOut,           \* generator: "pending", or how generate_signal ended and its signal
    gGate,          \* generator: "pending", or how apply_risk ended on its signal and window
    pArgs,          \* schema: the arguments handed to the RiskPlan constructor
    pOut,           \* schema: "pending", or what the constructor produced
    cPc,            \* cycle: where run_cycle is
    cIn,            \* cycle: the arguments and the environment of this run_cycle call
    cLoc,           \* cycle: the locals of run_cycle
    cResult,        \* cycle: what run_cycle returned, or the exception that left it
    cOps,           \* cycle: the queue and ledger writes this call has made, in order
    cStart,         \* cycle: the Redis list and the decision log as this call found them
    nCycles,        \* cycle: run_cycle calls started so far
    dIn,            \* data: the arguments of a get_candles call and the series it will draw
    dOut,           \* data: "pending", or what get_candles returned
    wPc,            \* writers: where each process is in append_decision
    wLoc,           \* writers: the locals of each append_decision call
    wCalls          \* writers: the append_decision calls each process has finished

busVars == <<queue, now, call, ret, cyc>>
concVars == <<pc, loc, calls, removed, delivered>>

\* What the whole-call bus operations leave alone, and what the consumers' steps do.
ledgerVars == <<decisionLog, resultsLog, nDecisions, nResults>>
valVars == <<vDecisions, vResults, exitCode>>
riskVars == <<rSignal, rSignal0, rCandles, rCfg, rOut, aRes>>
genVars == <<gSymbol, gCandles, gOut, gGate>>
schemaVars == <<pArgs, pOut>>
cycleVars == <<cPc, cIn, cLoc, cResult, cOps, cStart, nCycles>>
dataVars == <<dIn, dOut>>
writerVars == <<wPc, wLoc, wCalls>>
notBus == <<concVars, ledgerVars, valVars, riskVars, genVars, schemaVars, cycleVars, dataVars, writerVars>>
notConc == <<now, call, ret, cyc, ledgerVars, valVars, riskVars, genVars, schemaVars, cycleVars, dataVars, writerVars>>
notLedger == <<busVars, concVars, valVars, riskVars, genVars, schemaVars, cycleVars, dataVars, writerVars>>
notVal == <<busVars, concVars, ledgerVars, riskVars, genVars, schemaVars, cycleVars, dataVars, writerVars>>
notRisk == <<busVars, concVars, ledgerVars, valVars, genVars, schemaVars, cycleVars, dataVars, writerVars>>
notGen == <<busVars, concVars, ledgerVars, valVars, riskVars, schemaVars, cycleVars, dataVars, writerVars>>
notSchema == <<busVars, concVars, ledgerVars, valVars, riskVars, genVars, cycleVars, dataVars, writerVars>>

\* What run_cycle never touches: everything but the Redis list, the decision log and
\* its own state.
notCycle == <<now, call, ret, cyc, concVars, resultsLog, nDecisions, nResults,
              valVars, riskVars, genVars, schemaVars, dataVars, writerVars>>

(***************************************************************************)
(* Bounds of the model.                                                    *)
(***************************************************************************)
MaxQueue == 3       \* longest Redis list explored
MaxClock == 1       \* last clock value explored
MaxCalls == 1       \* fetch calls per concurrent consumer
MaxRows == 3        \* appends per ledger file, and rows per loaded log
MaxCandles == 3     \* longest candle window handed to the risk gate
MaxTakeProfits == 3 \* longest take_profits list handed to RiskPlan
MaxLimit == 52      \* largest limit handed to get_candles on its own
MaxWrites == 2      \* append_decision calls of one process
MaxCycles == 2      \* run_cycle calls made one after the other

(***************************************************************************)
(* Strings and their conversions.                                          *)
(***************************************************************************)
\* str.upper() on the symbols of the model.
Upper(s) == IF s = "btc" THEN "BTC" ELSE s

\* str.strip() on the rationales of the model.
Strip(s) == IF s = " ok " THEN "ok" ELSE s

\* len() of a rationale of the model ("long" stands for a 61-character text).
StrLen(s) ==
    CASE s = "ok" -> 2 [] s = " ok " -> 4 [] s = "" -> 0
      [] s = "Breakout above 20-bar high" -> 26 [] OTHER -> 61

\* datetime.isoformat(): the timestamp string of second t.
IsoFormat(t) == [iso |-> TRUE, t |-> t]

\* A timestamp string that datetime.fromisoformat() rejects.
NotADate == [iso |-> FALSE, t |-> 0]

(***************************************************************************)
(* schema/signal.py                                                        *)
(***************************************************************************)
MaxRationaleLen == 60

\* TakeProfit: size_pct = Field(gt=0, lt=1)
ValidTakeProfit(tp) == tp.size_pct > 0 /\ tp.size_pct < 10

RECURSIVE SumSizePct(_)
SumSizePct(tps) ==
    IF tps = <<>> THEN 0 ELSE Head(tps).size_pct + SumSizePct(Tail(tps))

\* What RiskPlan._validate_tp_count does: it returns, or raises a ValueError with a
\* message; has_sum and got tell whether that message states a sum, and which.
TpVerdict(msg, has_sum, got) == [ok |-> msg = "ok", msg |-> msg, has_sum |-> has_sum, got |-> got]

\* Mutant of ValidateTpCount: the count is not checked.
ValidateTpSumOnly(tps) ==
    LET total == SumSizePct(tps)
    IN  IF total # 10
        THEN TpVerdict("Take profit size_pct must sum to 1.0, got", TRUE, total)
        ELSE TpVerdict("ok", FALSE, 0)

\* RiskPlan._validate_tp_count
ValidateTpCount(tps) ==
    IF Len(tps) # 2
    THEN TpVerdict("Exactly 2 take_profits required for v1.0 schema", FALSE, 0)
    ELSE LET total == SumSizePct(tps)
         IN  IF total # 10
             THEN TpVerdict("Take profit size_pct must sum to 1.0, got", TRUE, total)
             ELSE TpVerdict("ok", FALSE, 0)

\* RiskPlan: every TakeProfit valid, the validator passes, max_capital_pct in (0,1).
ValidRiskPlan(r) ==
    /\ \A i \in 1..Len(r.take_profits) : ValidTakeProfit(r.take_profits[i])
    /\ ValidateTpCount(r.take_profits).ok
    /\ r.max_capital_pct > 0 /\ r.max_capital_pct < 100

\* RiskPlan(initial_stop, take_profits, max_capital_pct): the plan, or the
\* ValidationError.  The field validator of take_profits runs only when every element
\* is a valid TakeProfit, and only its message can state a sum.
NoPlan == [initial_stop |-> 0, take_profits |-> <<>>, max_capital_pct |-> 0]

RiskPlan(r) ==
    LET elems == \A i \in 1..Len(r.take_profits) : ValidTakeProfit(r.take_profits[i])
        v     == ValidateTpCount(r.take_profits)
    IN  IF ValidRiskPlan(r)
        THEN [ok |-> TRUE, plan |-> r, has_sum |-> FALSE, got |-> 0]
        ELSE [ok |-> FALSE, plan |-> NoPlan,
              has_sum |-> elems /\ v.has_sum, got |-> IF elems /\ v.has_sum THEN v.got ELSE 0]

\* TradingSignal._validate_entry
ValidateEntry(e) ==
    /\ e.type \in {"market", "limit"}
    /\ (e.type = "limit" => e.has_limit_price)

\* The field-level checks of TradingSignal on the given fields.
ValidSignalFields(d) ==
    /\ d.version = "1.0"
    /\ d.side \in {"long", "short"}
    /\ d.confidence > 0 /\ d.confidence <= 10
    /\ ValidateEntry(d.entry)
    /\ ValidRiskPlan(d.risk)
    /\ StrLen(d.rationale) <= MaxRationaleLen

\* What construction leaves in the object: _norm_symbol and _trim_rationale applied.
Normalised(d) ==
    [version     |-> d.version,
     decision_id |-> d.decision_id,
     timestamp   |-> d.timestamp,
     symbol      |-> Upper(d.symbol),
     side        |-> d.side,
     confidence  |-> d.confidence,
     entry       |-> d.entry,
     risk        |-> d.risk,
     rationale   |-> Strip(d.rationale)]

\* TradingSignal(**d) / TradingSignal.model_validate(d): the object, or a ValidationError.
TradingSignal(d) ==
    IF ValidSignalFields(d) THEN [ok |-> TRUE, sig |-> Normalised(d)]
    ELSE [ok |-> FALSE, sig |-> d]

(***************************************************************************)
(* Signals and payloads of the model.                                      *)
(***************************************************************************)
MarketEntry == [type |-> "market", has_limit_price |-> FALSE]

TwoTakeProfits ==
    << [price |-> 12, size_pct |-> 5], [price |-> 14, size_pct |-> 5] >>

PlanOk == [initial_stop |-> 8, take_profits |-> TwoTakeProfits, max_capital_pct |-> 3]

\* The constructor arguments of a signal of the model.
SignalArgs(id, ts, sym, rat) ==
    [version     |-> "1.0",
     decision_id |-> id,
     timestamp   |-> ts,
     symbol      |-> sym,
     side        |-> "long",
     confidence  |-> 7,
     entry       |-> MarketEntry,
     risk        |-> PlanOk,
     rationale   |-> rat]

\* A value of the signal type that is no signal (the sig field of None and of errors).
NoSignal == SignalArgs("", NotADate, "", "")

\* The raw list elements: kind "object" is a JSON object with the keys of data that are
\* not in missing; "scalar" is JSON that is no object (a number, a list, null);
\* "notjson" is text json.loads() rejects; "empty" is the empty string.
Raw(kind, data, missing) == [kind |-> kind, data |-> data, missing |-> missing]

\* Mutant of JsonDumps: the dump leaves the rationale out.
JsonDumpsNoRationale(sig) == Raw("object", sig, {"rationale"})

\* json.dumps(signal.model_dump())
JsonDumps(sig) == Raw("object", sig, {})

NotJson    == Raw("notjson", NoSignal, {})
ScalarJson == Raw("scalar", NoSignal, {})
EmptyRaw   == Raw("empty", NoSignal, {})
\* lindex() past the end of the list
NoneRaw    == Raw("none", NoSignal, {})


(***************************************************************************)
(* The Redis list commands the bus uses (indices are 0-based, as in Redis).*)
(***************************************************************************)
\* LPUSH: insert at the head.
LPush(q, v) == <<v>> \o q

\* LLEN
LLen(q) == Len(q)

\* LINDEX: the element at index i, nil past the end.
LIndex(q, i) == IF i >= 0 /\ i < Len(q) THEN q[i + 1] ELSE NoneRaw

\* The 1-based position of the first element equal to v, 0 when there is none.
FirstPos(q, v) ==
    IF \E k \in 1..Len(q) : q[k] = v
    THEN CHOOSE k \in 1..Len(q) : q[k] = v /\ \A j \in 1..(k - 1) : q[j] # v
    ELSE 0

\* The list without its element at 1-based position k.
RemoveAt(q, k) == SubSeq(q, 1, k - 1) \o SubSeq(q, k + 1, Len(q))

\* Mutant of LRem: LREM key 0 v, which removes every occurrence of v.
LRemAll(q, v) == SelectSeq(q, LAMBDA x : x # v)

\* LREM key 1 v: remove the first occurrence of v, scanning from the head.
LRem(q, v) == IF FirstPos(q, v) = 0 THEN q ELSE RemoveAt(q, FirstPos(q, v))

\* The number of elements LREM key 1 v removes.
LRemCount(q, v) == IF FirstPos(q, v) = 0 THEN 0 ELSE 1

(***************************************************************************)
(* publish.py                                                              *)
(***************************************************************************)
\* Return values of fetch_latest_signal: a signal, None, or an exception that escapes.
RetSignal(sig) == [kind |-> "signal", sig |-> sig, err |-> ""]
RetNone        == [kind |-> "none", sig |-> NoSignal, err |-> ""]
RetError(e)    == [kind |-> "error", sig |-> NoSignal, err |-> e]

\* `if not raw`: nil and the empty string are skipped.
Falsy(raw) == raw.kind \in {"none", "empty"}

\* data.get("symbol") != symbol.upper()
SymbolDiffers(raw, symbol) ==
    "symbol" \in raw.missing \/ raw.data.symbol # Upper(symbol)

\* datetime.fromisoformat(data["timestamp"]) raises (KeyError or ValueError).
TimestampFails(raw) == "timestamp" \in raw.missing \/ ~raw.data.timestamp.iso

\* Mutant of Stale: the age taken with the wrong sign, ts - now > max_age_sec.
StaleSignFlipped(raw, nowT, max_age_sec) == raw.data.timestamp.t - nowT > max_age_sec

\* now - ts > max_age_sec
Stale(raw, nowT, max_age_sec) == nowT - raw.data.timestamp.t > max_age_sec

\* TradingSignal.model_validate(data) on the keys the payload has.
ModelValidate(raw) ==
    IF raw.missing \cap {"symbol", "side", "confidence", "entry", "risk", "rationale"} # {}
    THEN [ok |-> FALSE, sig |-> raw.data]
    ELSE TradingSignal(raw.data)

\* What the loop body decides for the element read at one index:
\* "skip" (continue), "raise" (json value without .get), or "match".
Examine(raw, symbol, nowT, max_age_sec) ==
    IF Falsy(raw) THEN "skip"
    ELSE IF raw.kind = "notjson" THEN "skip"
    ELSE IF raw.kind = "scalar" THEN "raise"
    ELSE IF SymbolDiffers(raw, symbol) THEN "skip"
    ELSE IF TimestampFails(raw) THEN "skip"
    ELSE IF Stale(raw, nowT, max_age_sec) THEN "skip"
    ELSE "match"

\* Lines 65-66 on a match: LREM, then model_validate.
Consume(q, raw) ==
    [q   |-> LRem(q, raw),
     ret |-> IF ModelValidate(raw).ok THEN RetSignal(ModelValidate(raw).sig)
             ELSE RetError("ValidationError")]

\* The loop `for i in range(length)` from index i on, run without interruption.
RECURSIVE Scan(_, _, _, _, _, _)
Scan(q, i, length, symbol, nowT, max_age_sec) ==
    IF i >= length THEN [q |-> q, ret |-> RetNone]
    ELSE LET raw  == LIndex(q, i)
             what == Examine(raw, symbol, nowT, max_age_sec)
         IN  IF what = "raise" THEN [q |-> q, ret |-> RetError("AttributeError")]
             ELSE IF what = "match" THEN Consume(q, raw)
             ELSE Scan(q, i + 1, length, symbol, nowT, max_age_sec)

\* fetch_latest_signal(symbol, max_age_sec) as one uninterrupted call.
FetchLatestSignal(q, symbol, nowT, max_age_sec) ==
    Scan(q, 0, LLen(q), symbol, nowT, max_age_sec)

\* publish_signal(signal)
PublishSignal(q, sig) == LPush(q, JsonDumps(sig))

(***************************************************************************)
(* Inputs of the sequential bus model.                                     *)
(***************************************************************************)
RequestSymbols == {"btc", "BTC", "ETH"}
MaxAges == {0, 1}

\* The signals a producer constructs at time t: the timestamp defaults to the
\* construction time; a caller may pass any string.
ProducerSignals(t) ==
    { TradingSignal(SignalArgs(a[1], a[2], a[3], a[4])).sig :
        a \in ({"d1", "d2"} \X {IsoFormat(t)} \X {"btc"} \X {"ok", " ok "})
              \cup ({"d1"} \X {IsoFormat(t)} \X {"ETH"} \X {"ok"})
              \cup ({"d1"} \X {NotADate} \X {"btc"} \X {"ok"}) }

\* Payloads other writers leave in the list at time t: text that is no JSON, JSON
\* that is no object, an object without a timestamp, and an object for BTC with a
\* timestamp whose other fields fail the schema.
ForeignPayloads(t) ==
    { NotJson, ScalarJson,
      Raw("object", SignalArgs("d1", NotADate, "BTC", "ok"), {"timestamp"}),
      Raw("object", [SignalArgs("d1", IsoFormat(t), "BTC", "ok") EXCEPT !.side = "flat"], {}) }

\* An element a fetch for symbol with max_age_sec at nowT would match.
FreshMatch(raw, symbol, nowT, max_age_sec) ==
    Examine(raw, symbol, nowT, max_age_sec) = "match"

NoCall == [op |-> "none", symbol |-> "", max_age_sec |-> 0, now |-> 0]
NoCycle == [stage |-> 0, sig |-> NoSignal, len0 |-> 0, fresh |-> FALSE]

BusInit ==
    /\ queue = <<>>
    /\ now = 0
    /\ call = NoCall
    /\ ret = RetNone
    /\ cyc = NoCycle

\* A producer publishes a signal.
Publish ==
    /\ Len(queue) < MaxQueue
    /\ \E sig \in ProducerSignals(now) :
         /\ queue' = PublishSignal(queue, sig)
         /\ cyc' = [stage |-> 1, sig |-> sig, len0 |-> Len(queue), fresh |-> FALSE]
    /\ call' = [op |-> "publish", symbol |-> "", max_age_sec |-> 0, now |-> 0]
    /\ ret' = RetNone
    /\ UNCHANGED <<now, notBus>>

\* Another writer pushes a payload of its own.
ForeignPush ==
    /\ Len(queue) < MaxQueue
    /\ \E raw \in ForeignPayloads(now) : queue' = LPush(queue, raw)
    /\ call' = [op |-> "push", symbol |-> "", max_age_sec |-> 0, now |-> 0]
    /\ ret' = RetNone
    /\ cyc' = NoCycle
    /\ UNCHANGED <<now, notBus>>

\* The stage the publish(s); fetch(S); fetch(S) sequence reaches with this fetch:
\* 1 after publish(s), 2 after the fetch for s.symbol that follows it (fresh tells
\* whether s was fresh for that fetch), 3 after a second fetch for s.symbol that
\* follows with no fresh entry for the symbol in the list.
NextStage(symbol, max_age_sec) ==
    IF cyc.stage = 1 /\ Upper(symbol) = cyc.sig.symbol
    THEN [cyc EXCEPT !.stage = 2,
                     !.fresh = FreshMatch(JsonDumps(cyc.sig), symbol, now, max_age_sec)]
    ELSE IF /\ cyc.stage = 2 /\ cyc.fresh
            /\ Upper(symbol) = cyc.sig.symbol
            /\ \A k \in 1..Len(queue) : ~FreshMatch(queue[k], symbol, now, max_age_sec)
    THEN [cyc EXCEPT !.stage = 3]
    ELSE NoCycle

\* A consumer runs fetch_latest_signal to completion.
Fetch ==
    \E symbol \in RequestSymbols, max_age_sec \in MaxAges :
        LET r == FetchLatestSignal(queue, symbol, now, max_age_sec) IN
        /\ queue' = r.q
        /\ ret' = r.ret
        /\ call' = [op |-> "fetch", symbol |-> symbol, max_age_sec |-> max_age_sec, now |-> now]
        /\ cyc' = NextStage(symbol, max_age_sec)
        /\ UNCHANGED <<now, notBus>>

\* Time passes.
Tick ==
    /\ now < MaxClock
    /\ now' = now + 1
    /\ UNCHANGED <<queue, call, ret, cyc, notBus>>

(***************************************************************************)
(* Concurrent consumers: fetch_latest_signal one Redis command at a time.  *)
(***************************************************************************)
Consumers == {"c1", "c2"}

\* max_age_sec: int = 600
DefaultMaxAge == 600

\* had is no local of the code: it records whether the list held an entry the call
\* would match when the call began.
NoLocals ==
    [symbol |-> "", max_age_sec |-> 0, now |-> 0, length |-> 0, i |-> 0,
     raw |-> NoneRaw, ret |-> RetNone, had |-> FALSE]

\* The locals of a call that has returned r: its arguments and its result.
Returned(l, r) ==
    [NoLocals EXCEPT !.symbol = l.symbol, !.max_age_sec = l.max_age_sec, !.ret = r,
                     !.had = l.had]

ConcInit ==
    /\ pc = [c \in Consumers |-> "idle"]
    /\ loc = [c \in Consumers |-> NoLocals]
    /\ calls = [c \in Consumers |-> 0]
    /\ removed = 0
    /\ delivered = 0

\* Lines 42-43: the call starts and reads the clock.
BeginFetch(c) ==
    /\ pc[c] = "idle"
    /\ calls[c] < MaxCalls
    /\ \E symbol \in {"BTC", "ETH"} :
         loc' = [loc EXCEPT ![c] = [NoLocals EXCEPT !.symbol = symbol,
                                                    !.max_age_sec = DefaultMaxAge,
                                                    !.now = now,
                                                    !.had = \E k \in 1..Len(queue) :
                                                        FreshMatch(queue[k], symbol, now,
                                                                   DefaultMaxAge)]]
    /\ pc' = [pc EXCEPT ![c] = "llen"]
    /\ calls' = [calls EXCEPT ![c] = @ + 1]
    /\ UNCHANGED <<queue, removed, delivered, notConc>>

\* Line 45: length = client.llen(REDIS_LIST)
DoLLen(c) ==
    /\ pc[c] = "llen"
    /\ loc' = [loc EXCEPT ![c].length = LLen(queue), ![c].i = 0]
    /\ pc' = [pc EXCEPT ![c] = "loop"]
    /\ UNCHANGED <<queue, calls, removed, delivered, notConc>>

\* Lines 46-62: raw = client.lindex(REDIS_LIST, i) and the checks on it.
DoLIndex(c) ==
    /\ pc[c] = "loop"
    /\ loc[c].i < loc[c].length
    /\ LET raw  == LIndex(queue, loc[c].i)
           what == Examine(raw, loc[c].symbol, loc[c].now, loc[c].max_age_sec)
       IN  \/ /\ what = "skip"
              /\ loc' = [loc EXCEPT ![c].i = @ + 1]
              /\ pc' = pc
           \/ /\ what = "raise"
              /\ loc' = [loc EXCEPT ![c] = Returned(loc[c], RetError("AttributeError"))]
              /\ pc' = [pc EXCEPT ![c] = "idle"]
           \/ /\ what = "match"
              /\ loc' = [loc EXCEPT ![c].raw = raw]
              /\ pc' = [pc EXCEPT ![c] = "lrem"]
    /\ UNCHANGED <<queue, calls, removed, delivered, notConc>>

\* Line 67: the loop has run out, return None.
ReturnNone(c) ==
    /\ pc[c] = "loop"
    /\ loc[c].i >= loc[c].length
    /\ loc' = [loc EXCEPT ![c] = Returned(loc[c], RetNone)]
    /\ pc' = [pc EXCEPT ![c] = "idle"]
    /\ UNCHANGED <<queue, calls, removed, delivered, notConc>>

\* Lines 65-66: client.lrem(REDIS_LIST, 1, raw), whose count is not looked at,
\* then return TradingSignal.model_validate(data).
DoLRem(c) ==
    /\ pc[c] = "lrem"
    /\ queue' = Consume(queue, loc[c].raw).q
    /\ removed' = removed + LRemCount(queue, loc[c].raw)
    /\ loc' = [loc EXCEPT ![c] = Returned(loc[c], Consume(queue, loc[c].raw).ret)]
    /\ delivered' = delivered + (IF Consume(queue, loc[c].raw).ret.kind = "signal" THEN 1 ELSE 0)
    /\ pc' = [pc EXCEPT ![c] = "idle"]
    /\ UNCHANGED <<calls, notConc>>

\* The signals published while consumers are scanning.
ConcSignals ==
    { TradingSignal(SignalArgs("d1", IsoFormat(now), sym, "ok")).sig : sym \in {"BTC", "ETH"} }

\* A producer publishes while consumers are scanning.
ConcPublish ==
    /\ Len(queue) < MaxQueue
    /\ \E sig \in ConcSignals : queue' = PublishSignal(queue, sig)
    /\ UNCHANGED <<concVars, notConc>>

\* Another writer pushes JSON that is no object while consumers are scanning.
ConcForeignPush ==
    /\ Len(queue) < MaxQueue
    /\ queue' = LPush(queue, ScalarJson)
    /\ UNCHANGED <<concVars, notConc>>

(***************************************************************************)
(* logging_utils.py: the two CSV logs.  A file is its list of rows, a row  *)
(* its list of cells, a cell the text csv.writer puts in a column.         *)
(***************************************************************************)
\* A column holding a string as it is.
Text(str) == [form |-> "text", str |-> str, digits |-> 0, places |-> 0]

\* A column holding a timestamp string.
Stamp(ts) == [form |-> IF ts.iso THEN "isotime" ELSE "text", str |-> "", digits |-> ts.t, places |-> 0]

RECURSIVE Pow10(_)
Pow10(n) == IF n = 0 THEN 1 ELSE 10 * Pow10(n - 1)

\* f"{x:.<places>f}" for x = num/den: the digits of x with the point shifted by places.
Fixed(num, den, places) ==
    [form |-> "fixed", str |-> "", digits |-> (num * Pow10(places)) \div den, places |-> places]

DECISION_HEADERS ==
    << Text("decision_id"), Text("timestamp"), Text("symbol"), Text("side"),
       Text("entry_price"), Text("stop"), Text("tp1"), Text("tp2"), Text("confidence") >>

TRADE_RESULTS_HEADERS ==
    << Text("decision_id"), Text("exit_price"), Text("pnl_r_multiple"),
       Text("exit_reason"), Text("timestamp") >>

\* The row append_decision writes for a signal.
DecisionRow(signal, entry_price) ==
    << Text(signal.decision_id), Stamp(signal.timestamp), Text(signal.symbol),
       Text(signal.side), Fixed(entry_price, 1, 8),
       Fixed(signal.risk.initial_stop, 1, 8),
       Fixed(signal.risk.take_profits[1].price, 1, 8),
       Fixed(signal.risk.take_profits[2].price, 1, 8),
       Fixed(signal.confidence, 10, 4) >>

\* The row append_trade_result writes.
TradeResultRow(decision_id, exit_price, pnl_r_multiple, exit_reason, timestamp) ==
    << Text(decision_id), Fixed(exit_price, 1, 8), Fixed(pnl_r_multiple, 1, 4),
       Text(exit_reason), Stamp(timestamp) >>

NoFile == [exists |-> FALSE, rows |-> <<>>]

\* Mutant of WriteHeader: the header is written on every append.
WriteHeaderAlways(log) == TRUE

\* write_header = not LOG.exists()
WriteHeader(log) == ~log.exists

\* Mutant of OpenAppend: the file is opened "w", which truncates it.
OpenTruncate(log, rows) == [exists |-> TRUE, rows |-> rows]

\* LOG.open("a") and the rows written through it: created if missing, extended at the end.
OpenAppend(log, rows) == [exists |-> TRUE, rows |-> log.rows \o rows]

\* append_decision(signal, entry_price) on a log.
AppendDecisionTo(log, signal, entry_price) ==
    OpenAppend(log, (IF WriteHeader(log) THEN <<DECISION_HEADERS>> ELSE <<>>)
                    \o <<DecisionRow(signal, entry_price)>>)

\* append_trade_result(...) on a log.
AppendTradeResultTo(log, decision_id, exit_price, pnl_r_multiple, exit_reason, timestamp) ==
    OpenAppend(log, (IF WriteHeader(log) THEN <<TRADE_RESULTS_HEADERS>> ELSE <<>>)
                    \o <<TradeResultRow(decision_id, exit_price, pnl_r_multiple,
                                        exit_reason, timestamp)>>)

LedgerInit ==
    /\ decisionLog = NoFile
    /\ resultsLog = NoFile
    /\ nDecisions = 0
    /\ nResults = 0

\* The signals whose decisions are logged.
LedgerSignals ==
    { TradingSignal(SignalArgs(id, IsoFormat(0), "btc", "ok")).sig : id \in {"d1", "decision_id"} }

AppendDecision ==
    /\ nDecisions < MaxRows
    /\ \E signal \in LedgerSignals, entry_price \in {10, 11} :
         decisionLog' = AppendDecisionTo(decisionLog, signal, entry_price)
    /\ nDecisions' = nDecisions + 1
    /\ UNCHANGED <<resultsLog, nResults, notLedger>>

AppendTradeResult ==
    /\ nResults < MaxRows
    /\ \E decision_id \in {"d1", "d9"}, exit_reason \in {"tp1_hit", "stop_loss"} :
         resultsLog' = AppendTradeResultTo(resultsLog, decision_id, 12,
                           IF exit_reason = "tp1_hit" THEN 1 ELSE -1, exit_reason,
                           IsoFormat(1))
    /\ nResults' = nResults + 1
    /\ UNCHANGED <<decisionLog, nDecisions, notLedger>>

LedgerNext == AppendDecision \/ AppendTradeResult

(***************************************************************************)
(* scripts/validate_log_integrity.py                                       *)
(***************************************************************************)
\* The decision_id column of a list of loaded rows.
Ids(rows) == [k \in 1..Len(rows) |-> rows[k].decision_id]

\* The elements of a list, as a set.
Range(seq) == {seq[k] : k \in 1..Len(seq)}

\* Mutant of ValidateIntegrity: decisions without a result fail the check too.
ValidateIntegrityStrict(decisions, results) ==
    LET unique_decision_ids == Range(Ids(decisions))
        orphan_results == SelectSeq(Ids(results), LAMBDA id : id \notin unique_decision_ids)
        unmatched == {id \in unique_decision_ids : id \notin Range(Ids(results))}
    IN  IF Len(orphan_results) = 0 /\ Cardinality(unmatched) = 0 THEN 0 ELSE 1

\* validate_integrity() on the rows the two loaders returned: its return value.
ValidateIntegrity(decisions, results) ==
    LET decision_ids == Ids(decisions)
        unique_decision_ids == Range(decision_ids)
        decisions_by_id == [id \in unique_decision_ids |->
                              decisions[CHOOSE k \in 1..Len(decisions) :
                                  /\ decisions[k].decision_id = id
                                  /\ \A j \in (k + 1)..Len(decisions) :
                                        decisions[j].decision_id # id]]
        orphan_results == SelectSeq(Ids(results), LAMBDA id : id \notin DOMAIN decisions_by_id)
        orphan_count == Len(orphan_results)
    IN  IF orphan_count = 0 THEN 0 ELSE 1

ValInit ==
    /\ vDecisions = <<>>
    /\ vResults = <<>>
    /\ exitCode = -1

\* The rows a loader may return: one dict per data row of the log.
RECURSIVE LoadedRows(_)
LoadedRows(n) ==
    IF n = 0 THEN {<<>>}
    ELSE LoadedRows(n - 1) \cup
         { Append(rows, [decision_id |-> id]) :
             rows \in {r \in LoadedRows(n - 1) : Len(r) = n - 1}, id \in {"d1", "d2", "d9"} }

RunValidateIntegrity ==
    /\ exitCode = -1
    /\ \E decisions \in LoadedRows(MaxRows), results \in LoadedRows(MaxRows) :
         /\ vDecisions' = decisions
         /\ vResults' = results
         /\ exitCode' = ValidateIntegrity(decisions, results)
    /\ UNCHANGED notVal

ValNext == RunValidateIntegrity

(***************************************************************************)
(* data.py: compute_atr                                                    *)
(***************************************************************************)
Abs(x) == IF x < 0 THEN -x ELSE x

Max2(a, b) == IF a >= b THEN a ELSE b

\* The true range of candle i (1-based, i >= 2) of a window.
TrueRange(candles, i) ==
    LET hl == candles[i].high - candles[i].low
        hc == Abs(candles[i].high - candles[i - 1].close)
        lc == Abs(candles[i].low - candles[i - 1].close)
    IN  Max2(hl, Max2(hc, lc))

\* true_ranges: one value per candle from the second on.
TrueRanges(candles) == [k \in 1..(Len(candles) - 1) |-> TrueRange(candles, k + 1)]

RECURSIVE SumSeq(_)
SumSeq(seq) == IF seq = <<>> THEN 0 ELSE Head(seq) + SumSeq(Tail(seq))

\* seq[-n:] of Python for n >= 0: the last n elements, the whole list for n = 0
\* or n >= len(seq).
LastN(seq, n) ==
    IF n = 0 \/ n >= Len(seq) THEN seq ELSE SubSeq(seq, Len(seq) - n + 1, Len(seq))

\* round(num/den, 4) in 1e-4 units, for num >= 0 and den > 0.
Round4(num, den) == (2 * num * 10000 + den) \div (2 * den)

\* compute_atr(candles, period): the ATR in 1e-4 units, or the error raised.
\* A failed call: the exception and the two counts its message states (0, 0 for an
\* exception whose message states none).
AtrRaise(err, need, got) == [ok |-> FALSE, err |-> err, atr |-> 0, need |-> need, got |-> got]

\* A call that returned a value.
AtrReturn(atr) == [ok |-> TRUE, err |-> "", atr |-> atr, need |-> 0, got |-> 0]

ComputeATR(candles, period) ==
    IF Len(candles) < period + 1
    THEN AtrRaise("ValueError", period + 1, Len(candles))
    ELSE LET true_ranges == TrueRanges(candles)
             recent_ranges == LastN(true_ranges, period)
         IN  IF Len(true_ranges) < period
             THEN AtrRaise("ValueError", period, Len(true_ranges))
             ELSE IF Len(recent_ranges) = 0
             THEN AtrRaise("ZeroDivisionError", 0, 0)
             ELSE AtrReturn(Round4(SumSeq(recent_ranges), Len(recent_ranges)))

(***************************************************************************)
(* risk.py: apply_risk                                                     *)
(***************************************************************************)
\* The defaults of the cfg.get() calls (tenths; the capital cap in hundredths).
DefaultMinAtrMultiple == 5
DefaultMaxAtrMultiple == 50
DefaultMinRR == 15
DefaultAtrPeriod == 14
DefaultMaxCapitalPct == 5

\* dict.get(key, default) on a configuration dict of the model.
CfgGet(d, key, default) == IF key \in d.keys THEN d[key] ELSE default

\* Mutant of CapCapital: the configured cap is assigned whatever the signal holds.
CapCapitalAlways(current, max_cap) == max_cap

\* Lines 66-68: the value left in signal.risk.max_capital_pct on acceptance.
CapCapital(current, max_cap) == IF current > max_cap THEN max_cap ELSE current

\* Line 58: distance < min_mult * atr or distance > max_mult * atr (distance in
\* price units, the multiples in tenths, atr in 1e-4 units).
OutsideAtrBounds(distance, atr, min_mult, max_mult) ==
    distance * 100000 < min_mult * atr \/ distance * 100000 > max_mult * atr

\* Mutant of BelowMinRR: the comparison of line 62 turned round.
BelowMinRRFlipped(reward, distance, min_rr) == reward * 10 > min_rr * distance

\* Line 62: rr < min_rr, with rr = reward / distance and distance > 0.
BelowMinRR(reward, distance, min_rr) == reward * 10 < min_rr * distance

\* apply_risk(signal, candles, cfg): how the call ends ("signal", "none" or
\* "error") and the signal object as the call leaves it.
ApplyRisk(signal, candles, cfg) ==
    LET min_mult == CfgGet(cfg.risk, "min_atr_multiple", DefaultMinAtrMultiple)
        max_mult == CfgGet(cfg.risk, "max_atr_multiple", DefaultMaxAtrMultiple)
        min_rr   == CfgGet(cfg.risk, "min_rr", DefaultMinRR)
        period   == CfgGet(cfg.risk, "atr_period", DefaultAtrPeriod)
        a        == ComputeATR(candles, period)
        entry_price == candles[Len(candles)].close
        stop     == signal.risk.initial_stop
        tp1      == signal.risk.take_profits[1].price
        distance == IF signal.side = "long" THEN entry_price - stop ELSE stop - entry_price
        reward   == IF signal.side = "long" THEN tp1 - entry_price ELSE entry_price - tp1
        max_cap  == CfgGet(cfg, "max_capital_pct", DefaultMaxCapitalPct)
        reject   == [out |-> "none", signal |-> signal]
    IN  IF Len(candles) < period + 1 THEN reject
        ELSE IF ~a.ok THEN [out |-> "error", signal |-> signal]
        ELSE IF a.atr <= 0 THEN reject
        ELSE IF distance <= 0 THEN reject
        ELSE IF OutsideAtrBounds(distance, a.atr, min_mult, max_mult) THEN reject
        ELSE IF BelowMinRR(reward, distance, min_rr) THEN reject
        ELSE [out |-> "signal",
              signal |-> [signal EXCEPT !.risk.max_capital_pct = CapCapital(@, max_cap)]]

\* The signals handed to the gate.
GateSignals ==
    { [SignalArgs("d1", IsoFormat(0), "BTC", "ok") EXCEPT
         !.side = side,
         !.risk = [initial_stop |-> stop,
                   take_profits |-> << [price |-> tp1, size_pct |-> 5],
                                       [price |-> 14, size_pct |-> 5] >>,
                   max_capital_pct |-> cap]] :
        side \in {"long", "short"}, stop \in {8, 9, 10, 12}, tp1 \in {8, 11, 13},
        cap \in {3, 90} }

\* The candles a window is made of (low <= close <= high).
GateCandles ==
    { [high |-> 12, low |-> 8, close |-> 10],
      [high |-> 11, low |-> 10, close |-> 10],
      [high |-> 10, low |-> 10, close |-> 10] }

RECURSIVE Windows(_)
Windows(n) ==
    IF n = 0 THEN {<<>>}
    ELSE Windows(n - 1) \cup
         { Append(w, c) : w \in {x \in Windows(n - 1) : Len(x) = n - 1}, c \in GateCandles }

\* The ATR periods of the model.
AtrPeriods == {0, 1, 2}

\* The configuration dicts handed to the gate.
GateConfigs ==
    { [keys |-> IF cap = 0 THEN {} ELSE {"max_capital_pct"}, max_capital_pct |-> cap,
       risk |-> [keys |-> {"min_atr_multiple", "max_atr_multiple", "min_rr"} \cup
                          (IF period = DefaultAtrPeriod THEN {} ELSE {"atr_period"}),
                 min_atr_multiple |-> min_mult, max_atr_multiple |-> 50,
                 min_rr |-> min_rr, atr_period |-> period]] :
        cap \in {0, 5, 50}, period \in AtrPeriods \cup {DefaultAtrPeriod},
        min_mult \in {5, 20}, min_rr \in {10, 15} }

\* The risk gate at rest, in the specifications that are not about it.
RiskIdle ==
    /\ rSignal = NoSignal
    /\ rSignal0 = NoSignal
    /\ rCandles = <<>>
    /\ rCfg = [keys |-> {}]
    /\ rOut = "idle"
    /\ aRes = AtrRaise("idle", 0, 0)

RiskInit ==
    /\ rSignal \in GateSignals
    /\ rSignal0 = rSignal
    /\ rCandles \in Windows(MaxCandles)
    /\ rCfg \in GateConfigs
    /\ rOut = "pending"
    /\ aRes = AtrRaise("pending", 0, 0)

CallApplyRisk ==
    /\ rOut = "pending"
    /\ rOut' = ApplyRisk(rSignal, rCandles, rCfg).out
    /\ rSignal' = ApplyRisk(rSignal, rCandles, rCfg).signal
    /\ UNCHANGED <<rSignal0, rCandles, rCfg, aRes, notRisk>>

\* A direct call compute_atr(candles, period) on the same window, with the period
\* of the configuration.
CallComputeATR ==
    /\ rOut # "pending"
    /\ aRes.err = "pending"
    /\ aRes' = ComputeATR(rCandles, CfgGet(rCfg.risk, "atr_period", DefaultAtrPeriod))
    /\ UNCHANGED <<rSignal, rSignal0, rCandles, rCfg, rOut, notRisk>>

RiskNext == CallApplyRisk \/ CallComputeATR

(***************************************************************************)
(* signal_gen.py: generate_signal                                          *)
(***************************************************************************)
BREAKOUT_LOOKBACK == 20
STOP_LOOKBACK == 10
CONFIDENCE_DEFAULT == 6

\* min_candles_needed, line 36.
MinCandlesNeeded == Max2(BREAKOUT_LOOKBACK + 2, STOP_LOOKBACK + 2)

\* max() and min() of a non-empty list of numbers.
MaxOf(seq) == CHOOSE x \in Range(seq) : \A y \in Range(seq) : y <= x

MinOf(seq) == CHOOSE x \in Range(seq) : \A y \in Range(seq) : x <= y

\* seq[-a:-1] of Python for 1 < a <= len(seq): from the a-th last element up to, and
\* without, the last one.
SliceBeforeLast(seq, a) == SubSeq(seq, Len(seq) - a + 1, Len(seq) - 1)

\* Mutant of PriorWindow: the slice highs[-BREAKOUT_LOOKBACK:], current bar included.
PriorWindowWithCurrent(highs) == LastN(highs, BREAKOUT_LOOKBACK)

\* Line 49: highs[-(BREAKOUT_LOOKBACK+1):-1], the bars before the current one.
PriorWindow(highs) == SliceBeforeLast(highs, BREAKOUT_LOOKBACK + 1)

\* Mutant of TakeProfitPrice: the levels at twice the multiple.
TakeProfitPriceDouble(last_close, distance, r) == last_close + 2 * r * distance

\* Mutant of TakeProfitPrice: every level one distance above the entry.
TakeProfitPriceFlat(last_close, distance, r) == last_close + distance

\* Lines 63-64: the take-profit at r times the stop distance.
TakeProfitPrice(last_close, distance, r) == last_close + r * distance

\* What generate_signal builds from line 36 on, given the candles of line 33 and the
\* defaults the TradingSignal constructor draws (decision_id, timestamp).
GenerateSignal(symbol, candles, id, ts) ==
    LET highs  == [k \in 1..Len(candles) |-> candles[k].high]
        lows   == [k \in 1..Len(candles) |-> candles[k].low]
        closes == [k \in 1..Len(candles) |-> candles[k].close]
        last_close == closes[Len(closes)]
        prior_window_high == MaxOf(PriorWindow(highs))
        stop == MinOf(LastN(lows, STOP_LOOKBACK))
        distance == last_close - stop
        risk_plan == [initial_stop |-> stop,
                      take_profits |->
                          << [price |-> TakeProfitPrice(last_close, distance, 1), size_pct |-> 5],
                             [price |-> TakeProfitPrice(last_close, distance, 2), size_pct |-> 5] >>,
                      max_capital_pct |-> 5]
        built == TradingSignal([version     |-> "1.0",
                                decision_id |-> id,
                                timestamp   |-> ts,
                                symbol      |-> symbol,
                                side        |-> "long",
                                confidence  |-> CONFIDENCE_DEFAULT,
                                entry       |-> MarketEntry,
                                risk        |-> risk_plan,
                                rationale   |-> "Breakout above 20-bar high"])
        none == [out |-> "none", signal |-> NoSignal]
    IN  IF Len(candles) < MinCandlesNeeded THEN none
        ELSE IF last_close <= prior_window_high THEN none
        ELSE IF stop >= last_close THEN none
        ELSE IF ~built.ok THEN [out |-> "error", signal |-> NoSignal]
        ELSE [out |-> "signal", signal |-> built.sig]

\* The windows handed to the generator: quiet bars (high 10, low 8, close 9) with
\* the bars at both edges of the two lookbacks, and the current bar, varied.
QuietBar == [high |-> 10, low |-> 8, close |-> 9]

CurrentBars ==
    { [high |-> 10, low |-> 8, close |-> 9],
      [high |-> 10, low |-> 8, close |-> 10],
      [high |-> 11, low |-> 8, close |-> 11],
      [high |-> 11, low |-> 11, close |-> 11] }

\* A window of n bars; lowsAbove puts the low of each of the last STOP_LOOKBACK
\* bars above every close (the invalid bars of the generator's tests).
GenWindow(n, cur, hiIn, hiOut, loIn, loOut, lowsAbove) ==
    [k \in 1..n |->
        LET bar == IF k = n THEN cur
                   ELSE IF k = n - BREAKOUT_LOOKBACK THEN [QuietBar EXCEPT !.high = hiIn]
                   ELSE IF k = n - BREAKOUT_LOOKBACK - 1 THEN [QuietBar EXCEPT !.high = hiOut]
                   ELSE IF k = n - STOP_LOOKBACK + 1 THEN [QuietBar EXCEPT !.low = loIn]
                   ELSE IF k = n - STOP_LOOKBACK THEN [QuietBar EXCEPT !.low = loOut]
                   ELSE QuietBar
        IN  IF lowsAbove /\ k > n - STOP_LOOKBACK THEN [bar EXCEPT !.low = 12] ELSE bar]

GenWindows ==
    { GenWindow(n, cur, hiIn, hiOut, loIn, loOut, lowsAbove) :
        n \in (MinCandlesNeeded - 1)..(MinCandlesNeeded + 1), cur \in CurrentBars,
        hiIn \in {10, 12}, hiOut \in {10, 12}, loIn \in {8, 6}, loOut \in {8, 5},
        lowsAbove \in BOOLEAN }

\* The generator at rest, in the specifications that are not about it.
GenIdle ==
    /\ gSymbol = ""
    /\ gCandles = <<>>
    /\ gOut = [out |-> "idle", signal |-> NoSignal]
    /\ gGate = [out |-> "idle", min_rr |-> 0]

GenInit ==
    /\ gSymbol \in {"btc", "ETH"}
    /\ gCandles \in GenWindows
    /\ gOut = [out |-> "pending", signal |-> NoSignal]
    /\ gGate = [out |-> "pending", min_rr |-> 0]

CallGenerateSignal ==
    /\ gOut.out = "pending"
    /\ \E id \in {"d1", "d2"} : gOut' = GenerateSignal(gSymbol, gCandles, id, IsoFormat(now))
    /\ UNCHANGED <<gSymbol, gCandles, gGate, notGen>>

(***************************************************************************)
(* Constructing a RiskPlan.                                                *)
(***************************************************************************)
\* The size_pct values of the model (tenths; 0 is outside the field's range).
PlanSizes == {0, 2, 3, 5, 6}

RECURSIVE TakeProfitLists(_)
TakeProfitLists(n) ==
    IF n = 0 THEN {<<>>}
    ELSE TakeProfitLists(n - 1) \cup
         { Append(l, [price |-> 12, size_pct |-> z]) :
             l \in {x \in TakeProfitLists(n - 1) : Len(x) = n - 1}, z \in PlanSizes }

\* The constructor arguments of the model.
PlanArgs ==
    { [initial_stop |-> 8, take_profits |-> tps, max_capital_pct |-> cap] :
        tps \in TakeProfitLists(MaxTakeProfits), cap \in {0, 5, 100} }

\* The constructor at rest, in the specifications that are not about it.
SchemaIdle ==
    /\ pArgs = NoPlan
    /\ pOut = [state |-> "idle", res |-> RiskPlan(PlanOk)]

SchemaInit ==
    /\ pArgs \in PlanArgs
    /\ pOut = [state |-> "pending", res |-> RiskPlan(PlanOk)]

ConstructRiskPlan ==
    /\ pOut.state = "pending"
    /\ pOut' = [state |-> "done", res |-> RiskPlan(pArgs)]
    /\ UNCHANGED <<pArgs, notSchema>>

SchemaNext == ConstructRiskPlan

(***************************************************************************)
(* data.py: get_candles, and scripts/run_cycle.py: run_cycle, one call of  *)
(* run_cycle at a time, a step per call it makes.                          *)
(***************************************************************************)
\* A Python value handed over as `symbol`: a str, or a list.
StrValue(str) == [type |-> "str", str |-> str, list |-> <<>>]

ListValue(list) == [type |-> "list", str |-> "", list |-> list]

\* hash(symbol), data.py line 30: a list is unhashable (TypeError).
Hashable(v) == v.type = "str"

MIN_CANDLES == 50
CYCLE_LIMIT == 250
GENERATOR_LIMIT == 200

\* The price series the synthetic source can produce, by the shape of the series:
\* what the seed and the clock decide is a choice among these.
CandleShapes == {"quiet", "flat", "breakout"}

\* With "gap", a series whose first close lies away from the base price.
DataShapes == CandleShapes \cup {"gap"}

\* Lines 33-36: base_price.  Prices of the series are counted from the base price
\* of the symbol, which stands at 9.
BASE_PRICE == 9

\* Line 39: interval_ms, five minutes (in seconds, the unit of the clock).
INTERVAL == 300

\* Line 56: current_price of bar k of n.
ShapeClose(shape, k, n) ==
    CASE shape = "flat" -> 9
      [] shape = "breakout" /\ k = n -> 11
      [] shape = "gap" /\ k = 1 -> 12
      [] k = 1 -> 8
      [] OTHER -> 9

\* Line 60: volatility * abs(sin(time_factor + 1)), what high adds to the price.
ShapeUp(shape, k, n) ==
    CASE shape = "flat" -> 0
      [] shape = "breakout" /\ k = n -> 0
      [] shape = "gap" /\ k = 1 -> 0
      [] k = 1 -> 2
      [] OTHER -> 1

\* Line 61: volatility * abs(cos(time_factor + 2)), what low takes off the price.
ShapeDown(shape, k, n) ==
    CASE shape = "flat" -> 0
      [] shape = "breakout" /\ k = n -> 3
      [] k = 1 /\ shape # "gap" -> 0
      [] OTHER -> 1

\* Lines 74-75: 20 + 30 * abs(sin(time_factor + 3)), between 20 and 50.
ShapeVolume(k) == 20 + ((7 * k) % 31)

Min2(a, b) == IF a <= b THEN a ELSE b

\* Lines 50-84: the candle of index k - 1 in a series of n that starts at start_ms.
ShapeBar(shape, k, n, start_ms) ==
    LET current_price == ShapeClose(shape, k, n)
        high == Max2(current_price + ShapeUp(shape, k, n), current_price)
        low  == Min2(current_price - ShapeDown(shape, k, n), current_price)
        open_price == IF k = 1 THEN BASE_PRICE ELSE ShapeClose(shape, k - 1, n)
    IN  [timestamp |-> start_ms + (k - 1) * INTERVAL, open |-> open_price, high |-> high,
         low |-> low, close |-> current_price, volume |-> ShapeVolume(k)]

\* get_candles(symbol, limit) called at now_ms: actual_limit = max(limit, 50) bars,
\* or the TypeError of hash() on a symbol that is no str.
GetCandles(symbol, shape, limit, now_ms) ==
    LET actual_limit == Max2(limit, MIN_CANDLES)
        start_ms == now_ms - (actual_limit - 1) * INTERVAL
    IN  IF ~Hashable(symbol) THEN [ok |-> FALSE, err |-> "TypeError", candles |-> <<>>]
        ELSE [ok |-> TRUE, err |-> "",
              candles |-> [k \in 1..actual_limit |->
                              ShapeBar(shape, k, actual_limit, start_ms)]]

\* generate_signal(symbol) as a caller sees it: line 33 fetches the candles for the
\* value it was handed, and the rest works on them.
GenerateSignalCall(symbol, shape, id, ts) ==
    LET got == GetCandles(symbol, shape, GENERATOR_LIMIT, ts.t)
    IN  IF ~got.ok THEN [out |-> "error", signal |-> NoSignal]
        ELSE GenerateSignal(symbol.str, got.candles, id, ts)

\* RISK_DEFAULT of config.py, in tenths.
RISK_DEFAULT == [min_atr_multiple |-> 5, max_atr_multiple |-> 50, min_rr |-> 15]

\* MAX_CAPITAL_PCT as load_config() reads it, line 72: float() of the variable, any
\* number (hundredths).
ConfigCaps == {-5, 0, 2, 5, 150}

\* The Config objects load_config() returns.
Configs ==
    { [symbol |-> sym, max_capital_pct |-> cap, risk |-> RISK_DEFAULT] :
        sym \in {"ETH"}, cap \in ConfigCaps }

\* The dict run_cycle hands to apply_risk, lines 44-51 (no atr_period key).
GateDict(cfg) ==
    [keys |-> {"max_capital_pct"}, max_capital_pct |-> cfg.max_capital_pct,
     risk |-> [keys |-> {"min_atr_multiple", "max_atr_multiple", "min_rr"},
               min_atr_multiple |-> cfg.risk.min_atr_multiple,
               max_atr_multiple |-> cfg.risk.max_atr_multiple,
               min_rr |-> cfg.risk.min_rr,
               atr_period |-> DefaultAtrPeriod]]

\* What a stand-in for generate_signal returns (the tests of run_cycle install one):
\* None, or a signal of its own.
StandInReturns(t) ==
    { [out |-> "none", signal |-> NoSignal] } \cup
    { [out |-> "signal", signal |-> TradingSignal(SignalArgs(id, IsoFormat(t), "BTC", "ok")).sig] :
        id \in {"d1", "d2"} }

NoReturn == [out |-> "unset", signal |-> NoSignal]

\* The arguments and the environment of a run_cycle call.
CycleInputs(t) ==
    { [override |-> o, preview |-> p, generator |-> g.binding, genRet |-> g.ret,
       shape |-> sh, cfg |-> cfg] :
        o \in {"", "btc"}, p \in BOOLEAN,
        g \in { [binding |-> "module", ret |-> NoReturn] } \cup
              { [binding |-> "stand-in", ret |-> r] : r \in StandInReturns(t) },
        sh \in CandleShapes, cfg \in Configs }

NoLocalsYet ==
    [symbol |-> "", candles |-> <<>>, raw |-> NoReturn, risked |-> NoReturn,
     entry_price |-> 0, at |-> ""]

NoResult ==
    [kind |-> "none", status |-> "", symbol |-> "", decision_id |-> "", entry_price |-> 0,
     error |-> ""]

\* The dict run_cycle returns.
Returned4(status, symbol, decision_id, entry_price) ==
    [kind |-> "returned", status |-> status, symbol |-> symbol, decision_id |-> decision_id,
     entry_price |-> entry_price, error |-> ""]

\* An exception leaving run_cycle.
Raised(error) == [NoResult EXCEPT !.kind = "raised", !.error = error]

\* A write the cycle has made.
WriteOp(op, signal, entry_price) == [op |-> op, signal |-> signal, entry_price |-> entry_price]

\* Mutant of ShouldWrite: the preview flag is ignored.
ShouldWriteAlways(preview) == TRUE

\* Line 64: if not preview.
ShouldWrite(preview) == ~preview

\* Mutant of EntryPrice: the close of the first candle.
EntryPriceFirst(candles) == candles[1].close

\* Line 62: entry_price = candles[-1]["close"].
EntryPrice(candles) == candles[Len(candles)].close

CycleIdle ==
    /\ cPc = "idle"
    /\ cIn = CHOOSE i \in CycleInputs(0) : TRUE
    /\ cLoc = NoLocalsYet
    /\ cResult = NoResult
    /\ cOps = <<>>
    /\ cStart = [queue |-> <<>>, log |-> NoFile]
    /\ nCycles = 0

CycleInit ==
    /\ cPc = "config"
    /\ cIn \in CycleInputs(0)
    /\ cLoc = NoLocalsYet
    /\ cResult = NoResult
    /\ cOps = <<>>
    /\ cStart = [queue |-> <<>>, log |-> NoFile]
    /\ nCycles = 1

\* The next run_cycle call, once the last one is over; the environment load_config
\* reads stays as it is.
NewCycle ==
    /\ cPc \in {"done", "stopped"}
    /\ nCycles < MaxCycles
    /\ cPc' = "config"
    /\ cIn' \in { i \in CycleInputs(now) : i.cfg = cIn.cfg }
    /\ cLoc' = NoLocalsYet
    /\ cResult' = NoResult
    /\ cOps' = <<>>
    /\ cStart' = [queue |-> queue, log |-> decisionLog]
    /\ nCycles' = nCycles + 1
    /\ UNCHANGED <<queue, decisionLog, notCycle>>

\* Lines 27-28: cfg = load_config(); symbol = (symbol_override or cfg.symbol).upper()
LoadConfig ==
    /\ cPc = "config"
    /\ cLoc' = [cLoc EXCEPT !.symbol = Upper(IF cIn.override # "" THEN cIn.override
                                                                 ELSE cIn.cfg.symbol)]
    /\ cPc' = "fetch"
    /\ UNCHANGED <<cIn, cResult, cOps, cStart, nCycles, queue, decisionLog, notCycle>>

\* Line 31: candles = get_candles(symbol, limit=250)
FetchCandles ==
    /\ cPc = "fetch"
    /\ cLoc' = [cLoc EXCEPT
                  !.candles = GetCandles(StrValue(cLoc.symbol), cIn.shape, CYCLE_LIMIT, now).candles]
    /\ cPc' = "generate"
    /\ UNCHANGED <<cIn, cResult, cOps, cStart, nCycles, queue, decisionLog, notCycle>>

\* Lines 34-41: raw_signal = generate_signal(candles), and the no_trade return.  The
\* module's generate_signal is handed the candle list as its symbol.
Generate ==
    /\ cPc = "generate"
    /\ \E id \in {"d1"} :
         LET raw == IF cIn.generator = "module"
                    THEN GenerateSignalCall(ListValue(cLoc.candles), cIn.shape, id, IsoFormat(now))
                    ELSE cIn.genRet
         IN  /\ cLoc' = [cLoc EXCEPT !.raw = raw]
             /\ CASE raw.out = "error" ->
                        cPc' = "done" /\ cResult' = Raised("TypeError")
                   [] raw.out = "none" ->
                        cPc' = "done" /\ cResult' = Returned4("no_trade", cLoc.symbol, "", 0)
                   [] OTHER ->
                        cPc' = "gate" /\ UNCHANGED cResult
    /\ UNCHANGED <<cIn, cOps, cStart, nCycles, queue, decisionLog, notCycle>>

\* Lines 44-62: risked = apply_risk(raw_signal, candles, {...}), the filtered return,
\* and entry_price.
Gate ==
    /\ cPc = "gate"
    /\ LET risked == ApplyRisk(cLoc.raw.signal, cLoc.candles, GateDict(cIn.cfg))
       IN  /\ cLoc' = [cLoc EXCEPT !.risked = [out |-> risked.out,
                                               signal |-> IF risked.out = "signal"
                                                          THEN risked.signal ELSE NoSignal],
                                   !.raw.signal = risked.signal,
                                   !.entry_price = IF risked.out = "signal"
                                                   THEN EntryPrice(cLoc.candles) ELSE 0]
           /\ CASE risked.out = "error" ->
                      cPc' = "done" /\ cResult' = Raised("ZeroDivisionError")
                 [] risked.out = "none" ->
                      /\ cPc' = "done"
                      /\ cResult' = Returned4("filtered", cLoc.symbol,
                                              cLoc.raw.signal.decision_id, 0)
                 [] OTHER ->
                      cPc' = "write" /\ UNCHANGED cResult
    /\ UNCHANGED <<cIn, cOps, cStart, nCycles, queue, decisionLog, notCycle>>

\* Line 65: publish_signal(risked)
PublishStep ==
    /\ cPc = "write"
    /\ ShouldWrite(cIn.preview)
    /\ queue' = PublishSignal(queue, cLoc.risked.signal)
    /\ cOps' = Append(cOps, WriteOp("publish", cLoc.risked.signal, 0))
    /\ cPc' = "append"
    /\ UNCHANGED <<cIn, cLoc, cResult, cStart, nCycles, decisionLog, notCycle>>

\* Line 65 with Redis unreachable: lpush raises, nothing is pushed, and run_cycle
\* has no handler.
PublishFails ==
    /\ cPc = "write"
    /\ ShouldWrite(cIn.preview)
    /\ cResult' = Raised("ConnectionError")
    /\ cPc' = "done"
    /\ UNCHANGED <<cIn, cLoc, cOps, cStart, nCycles, queue, decisionLog, notCycle>>

\* Line 66: append_decision(risked, entry_price=entry_price)
AppendStep ==
    /\ cPc = "append"
    /\ decisionLog' = AppendDecisionTo(decisionLog, cLoc.risked.signal, cLoc.entry_price)
    /\ cOps' = Append(cOps, WriteOp("append", cLoc.risked.signal, cLoc.entry_price))
    /\ cPc' = "return"
    /\ UNCHANGED <<cIn, cLoc, cResult, cStart, nCycles, queue, notCycle>>

\* Line 66 with the log not writable: open() raises, nothing is written, and
\* run_cycle has no handler.
AppendFails ==
    /\ cPc = "append"
    /\ cResult' = Raised("OSError")
    /\ cPc' = "done"
    /\ UNCHANGED <<cIn, cLoc, cOps, cStart, nCycles, queue, decisionLog, notCycle>>

\* Lines 68-76: the result of a cycle whose signal passed the gate.
ReturnResult ==
    /\ cPc = "return" \/ (cPc = "write" /\ ~ShouldWrite(cIn.preview))
    /\ cResult' = Returned4(IF ~cIn.preview THEN "published" ELSE "preview", cLoc.symbol,
                            cLoc.risked.signal.decision_id, cLoc.entry_price)
    /\ cPc' = "done"
    /\ UNCHANGED <<cIn, cLoc, cOps, cStart, nCycles, queue, decisionLog, notCycle>>

\* The process is stopped between two steps of the cycle.
Stop ==
    /\ cPc \in {"config", "fetch", "generate", "gate", "write", "append", "return"}
    /\ cLoc' = [cLoc EXCEPT !.at = cPc]
    /\ cPc' = "stopped"
    /\ UNCHANGED <<cIn, cResult, cOps, cStart, nCycles, queue, decisionLog, notCycle>>

CycleNext ==
    \/ NewCycle
    \/ LoadConfig
    \/ FetchCandles
    \/ Generate
    \/ Gate
    \/ PublishStep
    \/ PublishFails
    \/ AppendStep
    \/ AppendFails
    \/ ReturnResult
    \/ Stop

(***************************************************************************)
(* data.py: get_candles called on its own.                                 *)
(***************************************************************************)
DataInputs ==
    { [symbol |-> sym, limit |-> limit, shape |-> sh] :
        sym \in {"BTC", "ETH"}, limit \in 1..MaxLimit, sh \in DataShapes }

NoCandles == [ok |-> FALSE, err |-> "pending", candles |-> <<>>]

DataIdle ==
    /\ dIn = [symbol |-> "", limit |-> 0, shape |-> ""]
    /\ dOut = [NoCandles EXCEPT !.err = "idle"]

DataInit ==
    /\ dIn \in DataInputs
    /\ dOut = NoCandles

CallGetCandles ==
    /\ dOut.err = "pending"
    /\ dOut' = GetCandles(StrValue(dIn.symbol), dIn.shape, dIn.limit, now)
    /\ UNCHANGED <<dIn, busVars, concVars, ledgerVars, valVars, riskVars, genVars,
                   schemaVars, cycleVars, writerVars>>

DataNext == CallGetCandles

(***************************************************************************)
(* signal_gen.py and risk.py: the gate on a signal of the generator, with  *)
(* the window it was generated from.                                       *)
(***************************************************************************)
\* The values of min_rr the gate is configured with (tenths).
MinRRs == {10, 11, 15, 30}

\* The dict a caller builds from a Config whose min_rr is set, the other settings
\* being those of RISK_DEFAULT.
GenGateDict(min_rr) ==
    GateDict([symbol |-> "ETH", max_capital_pct |-> DefaultMaxCapitalPct,
              risk |-> [RISK_DEFAULT EXCEPT !.min_rr = min_rr]])

\* apply_risk(signal, candles, cfg) on the signal generate_signal returned for candles.
CallApplyRiskOnGenerated ==
    /\ gOut.out = "signal"
    /\ gGate.out = "pending"
    /\ \E min_rr \in MinRRs :
         gGate' = [out |-> ApplyRisk(gOut.signal, gCandles, GenGateDict(min_rr)).out,
                   min_rr |-> min_rr]
    /\ UNCHANGED <<gSymbol, gCandles, gOut, notGen>>

GenNext == CallGenerateSignal \/ CallApplyRiskOnGenerated

(***************************************************************************)
(* logging_utils.py: append_decision called by two processes, a step for   *)
(* the test of existence and a step for the append.                        *)
(***************************************************************************)
Writers == {"w1", "w2"}

NoWrite == [signal |-> NoSignal, entry_price |-> 0, write_header |-> FALSE]

\* Lines 41-54: the rows one call writes through its file object.
DecisionRows(write_header, signal, entry_price) ==
    (IF write_header THEN <<DECISION_HEADERS>> ELSE <<>>) \o <<DecisionRow(signal, entry_price)>>

WriterIdle ==
    /\ wPc = [w \in Writers |-> "off"]
    /\ wLoc = [w \in Writers |-> NoWrite]
    /\ wCalls = [w \in Writers |-> 0]

WriterInit ==
    /\ wPc = [w \in Writers |-> "idle"]
    /\ wLoc = [w \in Writers |-> NoWrite]
    /\ wCalls = [w \in Writers |-> 0]

\* Lines 37-38: _ensure_parent(DECISION_LOG); write_header = not DECISION_LOG.exists()
CheckExists(w) ==
    /\ wPc[w] = "idle"
    /\ wCalls[w] < MaxWrites
    /\ \E signal \in LedgerSignals, entry_price \in {9} :
         wLoc' = [wLoc EXCEPT ![w] = [signal |-> signal, entry_price |-> entry_price,
                                      write_header |-> WriteHeader(decisionLog)]]
    /\ wPc' = [wPc EXCEPT ![w] = "open"]
    /\ UNCHANGED <<wCalls, decisionLog, resultsLog, nDecisions, nResults,
                   busVars, concVars, valVars, riskVars, genVars, schemaVars, cycleVars, dataVars>>

\* Lines 40-54: the file is opened for append and the rows reach it in one piece.
WriteRows(w) ==
    /\ wPc[w] = "open"
    /\ decisionLog' = OpenAppend(decisionLog,
                                 DecisionRows(wLoc[w].write_header, wLoc[w].signal,
                                              wLoc[w].entry_price))
    /\ wLoc' = [wLoc EXCEPT ![w] = NoWrite]
    /\ wPc' = [wPc EXCEPT ![w] = "idle"]
    /\ wCalls' = [wCalls EXCEPT ![w] = @ + 1]
    /\ UNCHANGED <<resultsLog, nDecisions, nResults,
                   busVars, concVars, valVars, riskVars, genVars, schemaVars, cycleVars, dataVars>>

WriterNext ==
    \/ \E w \in Writers : CheckExists(w)
    \/ \E w \in Writers : WriteRows(w)

(***************************************************************************)
(* The sequential bus: whole calls, one at a time.                         *)
(***************************************************************************)
vars == <<busVars, concVars, ledgerVars, valVars, riskVars, genVars, schemaVars, cycleVars,
          dataVars, writerVars>>

Init == BusInit /\ ConcInit /\ LedgerInit /\ ValInit /\ RiskIdle /\ GenIdle /\ SchemaIdle /\ CycleIdle /\ DataIdle /\ WriterIdle

Next == Publish \/ ForeignPush \/ Fetch \/ Tick

Spec == Init /\ [][Next]_vars

(***************************************************************************)
(* The concurrent bus: a producer and two consumers, interleaved at the    *)
(* Redis commands.                                                         *)
(***************************************************************************)
ConcNext ==
    \/ ConcPublish
    \/ ConcForeignPush
    \/ \E c \in Consumers : BeginFetch(c)
    \/ \E c \in Consumers : DoLLen(c)
    \/ \E c \in Consumers : DoLIndex(c)
    \/ \E c \in Consumers : ReturnNone(c)
    \/ \E c \in Consumers : DoLRem(c)

SpecConc == Init /\ [][ConcNext]_vars

(***************************************************************************)
(* The ledger, the validator and the risk gate, each on its own.           *)
(***************************************************************************)
SpecLedger == Init /\ [][LedgerNext]_vars

SpecValidate == Init /\ [][ValNext]_vars

InitRisk == BusInit /\ ConcInit /\ LedgerInit /\ ValInit /\ RiskInit /\ GenIdle /\ SchemaIdle /\ CycleIdle /\ DataIdle /\ WriterIdle

SpecRisk == InitRisk /\ [][RiskNext]_vars

InitGen == BusInit /\ ConcInit /\ LedgerInit /\ ValInit /\ RiskIdle /\ GenInit /\ SchemaIdle /\ CycleIdle /\ DataIdle /\ WriterIdle

SpecGen == InitGen /\ [][GenNext]_vars

InitSchema == BusInit /\ ConcInit /\ LedgerInit /\ ValInit /\ RiskIdle /\ GenIdle /\ SchemaInit /\ CycleIdle /\ DataIdle /\ WriterIdle

SpecSchema == InitSchema /\ [][SchemaNext]_vars

InitCycle ==
    BusInit /\ ConcInit /\ LedgerInit /\ ValInit /\ RiskIdle /\ GenIdle /\ SchemaIdle /\ CycleInit
    /\ DataIdle /\ WriterIdle

SpecCycle == InitCycle /\ [][CycleNext]_vars

InitData ==
    BusInit /\ ConcInit /\ LedgerInit /\ ValInit /\ RiskIdle /\ GenIdle /\ SchemaIdle /\ CycleIdle
    /\ DataInit /\ WriterIdle

SpecData == InitData /\ [][DataNext]_vars

InitWriters ==
    BusInit /\ ConcInit /\ LedgerInit /\ ValInit /\ RiskIdle /\ GenIdle /\ SchemaIdle /\ CycleIdle
    /\ DataIdle /\ WriterInit

SpecWriters == InitWriters /\ [][WriterNext]_vars

(***************************************************************************)
(* Properties of the sequential bus.                                       *)
(***************************************************************************)
\* The number of elements of q equal to v.
Count(q, v) == Cardinality({k \in 1..Len(q) : q[k] = v})

\* An element that cannot be turned into a TradingSignal.
Undeserializable(raw) ==
    raw.kind # "object" \/ TimestampFails(raw) \/ ~ModelValidate(raw).ok

\* C1: at-most-once fetch, sequential case.  From any list contents, after
\* publish(s) of a fresh signal s for S the first fetchLatest(S) returns s and the
\* list is back to its pre-publish length; a second fetchLatest(S) right after, with
\* no fresh entry for S in the list, returns None and leaves the length unchanged.
C1_SequentialAtMostOnce ==
    /\ (cyc.stage = 2 /\ cyc.fresh) =>
          (ret = RetSignal(cyc.sig) /\ Len(queue) = cyc.len0)
    /\ cyc.stage = 3 =>
          (ret = RetNone /\ Len(queue) = cyc.len0)

\* C3: frame of fetchLatest with a single consumer.  A call that returns a signal
\* removes exactly one element, the first matching entry of the scan, which is the
\* one it returns; a call that returns None removes nothing; every other entry
\* stays, in the same relative order.
C3_FetchFrame ==
    [][Fetch =>
        /\ ret'.kind = "signal" =>
             \E k \in 1..Len(queue) :
                /\ FreshMatch(queue[k], call'.symbol, now, call'.max_age_sec)
                /\ \A j \in 1..(k - 1) :
                      ~FreshMatch(queue[j], call'.symbol, now, call'.max_age_sec)
                /\ ret'.sig = ModelValidate(queue[k]).sig
                /\ queue' = RemoveAt(queue, k)
        /\ ret'.kind = "none" => queue' = queue
      ]_vars

\* C3 witness: a fetch has returned a signal and left two other entries behind,
\* one of them malformed, one of them for the same symbol.
C3_Witness ==
    /\ call.op = "fetch" /\ ret.kind = "signal"
    /\ Len(queue) = 2
    /\ queue[1] = NotJson
    /\ queue[2].kind = "object" /\ queue[2].data.symbol = ret.sig.symbol

\* C4: corrupt and foreign payloads coexist safely.  A fetch never fails with an
\* error, never removes an entry that cannot be deserialized, and returns a valid
\* fresh match when the list holds one.
C4_CorruptPayloadsSafe ==
    [][Fetch =>
        /\ ret'.kind # "error"
        /\ \A k \in 1..Len(queue) :
              Undeserializable(queue[k]) => Count(queue', queue[k]) = Count(queue, queue[k])
        /\ (\E k \in 1..Len(queue) :
              /\ FreshMatch(queue[k], call'.symbol, now, call'.max_age_sec)
              /\ ModelValidate(queue[k]).ok) => ret'.kind = "signal"
      ]_vars

\* C5: every signal a fetch returns carries the uppercase form of the requested
\* symbol and an age, taken at the start of the call, of at most max_age_sec.
C5_SymbolAndFreshness ==
    (call.op = "fetch" /\ ret.kind = "signal") =>
        /\ ret.sig.symbol = Upper(call.symbol)
        /\ ret.sig.timestamp.iso
        /\ call.now - ret.sig.timestamp.t <= call.max_age_sec

\* C5 witness: a lowercase request has returned an uppercase signal whose age is
\* exactly max_age_sec.
C5_Witness ==
    /\ call.op = "fetch" /\ call.symbol = "btc" /\ ret.kind = "signal"
    /\ ret.sig.symbol = "BTC"
    /\ call.max_age_sec = 1
    /\ call.now - ret.sig.timestamp.t = 1

C2_AtMostOnceDelivery == delivered <= removed

(***************************************************************************)
(* Properties of the ledger.                                               *)
(***************************************************************************)
\* A log that holds its header once, as its first row, and n data rows after it.
HeaderOnce(log, header, n) ==
    /\ Len(log.rows) = 1 + n
    /\ log.rows[1] = header
    /\ \A k \in 2..Len(log.rows) : log.rows[k] # header

\* C7: ledger idempotent header.  After N >= 1 sequential appends to a path that
\* did not exist, the file holds exactly one header row, as its first row and
\* nowhere else, followed by N data rows; this for either log.
C7_HeaderOnce ==
    /\ nDecisions >= 1 => HeaderOnce(decisionLog, DECISION_HEADERS, nDecisions)
    /\ nResults >= 1 => HeaderOnce(resultsLog, TRADE_RESULTS_HEADERS, nResults)

\* C7 witness: three decisions, one of them with the decision_id "decision_id",
\* and two results have been appended.
C7_Witness ==
    /\ nDecisions = 3 /\ nResults = 2
    /\ \E k \in 2..Len(decisionLog.rows) : decisionLog.rows[k][1] = Text("decision_id")

\* The data rows of a log.
DataRows(log, header) == SelectSeq(log.rows, LAMBDA row : row # header)

\* One data row was added at the end of the log and every earlier row kept.
AppendedOne(before, after, header) ==
    /\ Len(after.rows) > Len(before.rows)
    /\ SubSeq(after.rows, 1, Len(before.rows)) = before.rows
    /\ after.rows[Len(after.rows)] # header
    /\ Len(DataRows(after, header)) = Len(DataRows(before, header)) + 1

\* C8: the ledger is append-only and the two logs are independent.  Every
\* appendDecision adds one data row at the end of the decision log, keeps its
\* earlier rows and leaves the results log untouched; every appendTradeResult does
\* the same for the results log and leaves the decision log untouched.
C8_AppendOnlyIndependent ==
    [][ /\ AppendDecision =>
             /\ AppendedOne(decisionLog, decisionLog', DECISION_HEADERS)
             /\ resultsLog' = resultsLog
        /\ AppendTradeResult =>
             /\ AppendedOne(resultsLog, resultsLog', TRADE_RESULTS_HEADERS)
             /\ decisionLog' = decisionLog
      ]_vars

\* C8 witness: a result has been appended for a decision_id that has no decision
\* row, after both logs had rows.
C8_Witness ==
    /\ nDecisions >= 2 /\ nResults >= 2
    /\ \E k \in 2..Len(resultsLog.rows) :
          \A j \in 1..Len(decisionLog.rows) : decisionLog.rows[j][1] # resultsLog.rows[k][1]

(***************************************************************************)
(* Properties of the validator.                                            *)
(***************************************************************************)
\* C9: validate_integrity returns 1 exactly when some result row's decision_id
\* matches no decision row; unmatched decisions, duplicate decision_ids and empty
\* logs do not make it fail.
C9_FailsIffOrphan ==
    exitCode # -1 =>
        /\ exitCode \in {0, 1}
        /\ exitCode = 1 <=>
              \E k \in 1..Len(vResults) :
                 \A j \in 1..Len(vDecisions) :
                    vDecisions[j].decision_id # vResults[k].decision_id

\* C9 witness: the validator passed logs with a duplicated decision_id, a
\* decision without a result and a matched result.
C9_Witness ==
    /\ exitCode = 0
    /\ Len(vResults) >= 1
    /\ \E j, k \in 1..Len(vDecisions) : j # k /\ vDecisions[j] = vDecisions[k]
    /\ \E j \in 1..Len(vDecisions) :
          \A k \in 1..Len(vResults) : vResults[k].decision_id # vDecisions[j].decision_id

(***************************************************************************)
(* Properties of the risk gate.                                            *)
(***************************************************************************)
\* C10: frame of the risk gate.  apply changes at most risk.max_capital_pct; on
\* acceptance the value becomes min(previous value, configured cap), never more
\* than before; on rejection the signal is left as it was.
C10_GateFrame ==
    rOut \notin {"idle", "pending"} =>
        /\ [rSignal EXCEPT !.risk.max_capital_pct = 0]
             = [rSignal0 EXCEPT !.risk.max_capital_pct = 0]
        /\ rOut = "signal" =>
             LET cap == CfgGet(rCfg, "max_capital_pct", DefaultMaxCapitalPct)
                 old == rSignal0.risk.max_capital_pct
             IN  /\ rSignal.risk.max_capital_pct = (IF old < cap THEN old ELSE cap)
                 /\ rSignal.risk.max_capital_pct <= old
        /\ rOut # "signal" => rSignal = rSignal0

\* C10 witness: the gate accepted a signal and lowered its capital share from
\* 0.90 to the configured 0.05.
C10_Witness ==
    /\ rOut = "signal"
    /\ rSignal0.risk.max_capital_pct = 90
    /\ rSignal.risk.max_capital_pct = 5

(***************************************************************************)
(* Properties of the risk gate's decision and of compute_atr.              *)
(***************************************************************************)
\* The atr_period a configuration gives the gate.
PeriodOf(cfg) == CfgGet(cfg.risk, "atr_period", DefaultAtrPeriod)

\* The acceptance condition as the specification words it: enough candles, an ATR
\* that exists and is > 0, distance > 0, min*ATR <= distance <= max*ATR, RR >= min_rr.
GateShouldAccept(signal, candles, cfg) ==
    LET min_mult == CfgGet(cfg.risk, "min_atr_multiple", DefaultMinAtrMultiple)
        max_mult == CfgGet(cfg.risk, "max_atr_multiple", DefaultMaxAtrMultiple)
        min_rr   == CfgGet(cfg.risk, "min_rr", DefaultMinRR)
        a        == ComputeATR(candles, PeriodOf(cfg))
        entry    == candles[Len(candles)].close
        stop     == signal.risk.initial_stop
        tp1      == signal.risk.take_profits[1].price
        distance == IF signal.side = "long" THEN entry - stop ELSE stop - entry
        reward   == IF signal.side = "long" THEN tp1 - entry ELSE entry - tp1
    IN  /\ Len(candles) >= PeriodOf(cfg) + 1
        /\ a.ok
        /\ a.atr > 0
        /\ distance > 0
        /\ min_mult * a.atr <= distance * 100000
        /\ distance * 100000 <= max_mult * a.atr
        /\ reward * 10 >= min_rr * distance

GateCalled == rOut \in {"signal", "none", "error"}

\* C11: the gate's decision function.  apply_risk returns the signal exactly when
\* there are at least atr_period+1 candles, the ATR is > 0, distance > 0, distance
\* lies within [min_atr_multiple*ATR, max_atr_multiple*ATR] and RR >= min_rr (a
\* value on a bound is accepted); in every other case it returns None and does not
\* raise.
C11_DecisionFunction ==
    GateCalled =>
        IF GateShouldAccept(rSignal0, rCandles, rCfg) THEN rOut = "signal" ELSE rOut = "none"

\* The configurations that differ from c only by a larger min_atr_multiple or a
\* larger min_rr.
Tightened(c) ==
    { d \in GateConfigs :
        /\ d.risk.min_atr_multiple >= c.risk.min_atr_multiple
        /\ d.risk.min_rr >= c.risk.min_rr
        /\ d = [c EXCEPT !.risk.min_atr_multiple = d.risk.min_atr_multiple,
                         !.risk.min_rr = d.risk.min_rr] }

\* C12: monotonicity of the gate.  With the window and the signal fixed, a signal
\* rejected under a configuration is rejected under every configuration that
\* differs only by a larger min_atr_multiple or a larger min_rr.
C12_TighteningNeverAccepts ==
    (GateCalled /\ rOut # "signal") =>
        \A d \in Tightened(rCfg) : ApplyRisk(rSignal0, rCandles, d).out # "signal"

\* A signal rejected for its RR or its ATR distance under a configuration that has
\* a strictly tighter one.
C12_Witness ==
    /\ rOut = "none"
    /\ Len(rCandles) >= PeriodOf(rCfg) + 1
    /\ ComputeATR(rCandles, PeriodOf(rCfg)).atr > 0
    /\ rSignal0.side = "long"
    /\ rSignal0.risk.initial_stop < rCandles[Len(rCandles)].close
    /\ \E d \in Tightened(rCfg) : d # rCfg

AtrCalled == aRes.err \notin {"pending", "idle"}

\* C13: ATR sufficiency.  With fewer than period+1 candles compute_atr fails with
\* the insufficient-data error whose message states period+1 and len(candles), and
\* returns nothing; with period+1 candles or more it does not fail.
C13_Sufficiency ==
    AtrCalled =>
        IF Len(rCandles) < PeriodOf(rCfg) + 1
        THEN aRes = AtrRaise("ValueError", PeriodOf(rCfg) + 1, Len(rCandles))
        ELSE aRes.ok

\* The Candle invariant on the fields compute_atr reads.
ValidCandle(c) == c.low <= c.close /\ c.close <= c.high

\* C14: ATR positivity.  For a window of period+1 or more valid candles, the value
\* compute_atr returns (the mean of the last `period` true ranges) is strictly
\* greater than 0.
C14_Positive ==
    (/\ AtrCalled
     /\ aRes.ok
     /\ Len(rCandles) >= PeriodOf(rCfg) + 1
     /\ \A k \in 1..Len(rCandles) : ValidCandle(rCandles[k])) =>
        aRes.atr > 0

(***************************************************************************)
(* Properties of the signal generator.                                     *)
(***************************************************************************)
GenCalled == gOut.out \notin {"pending", "idle"}

\* The breakout condition in the specification's words: at least 22 bars, the last
\* close above the high of each of the 20 bars before the last one, and some low
\* among the last 10 bars below the last close.
IsBreakout(candles) ==
    LET n == Len(candles)
    IN  /\ n >= 22
        /\ \A k \in (n - 20)..(n - 1) : candles[k].high < candles[n].close
        /\ \E k \in (n - 9)..n : candles[k].low < candles[n].close

\* C15: breakout detection.  generate_signal returns a signal exactly when the
\* window has at least 22 candles, the last close is strictly above the maximum
\* high of the 20 bars preceding the last bar and the minimum low of the last 10
\* bars is strictly below the last close; in every other case it returns None.
C15_BreakoutDetection ==
    GenCalled =>
        IF IsBreakout(gCandles) THEN gOut.out = "signal" ELSE gOut.out = "none"

\* A signal from a window of exactly 22 bars whose bar just outside the 20-bar
\* lookback has a high above the last close.
C15_Witness ==
    /\ gOut.out = "signal"
    /\ Len(gCandles) = 22
    /\ gCandles[1].high > gCandles[22].close

\* C16: stop below entry.  Every signal generate_signal returns is a long market
\* signal with initial_stop < entry (the last close), tp1 = entry + (entry - stop),
\* tp2 = entry + 2*(entry - stop), hence stop < entry < tp1 < tp2, and both
\* take-profits carry size 0.5.
C16_StopBelowEntry ==
    gOut.out = "signal" =>
        LET sig   == gOut.signal
            entry == gCandles[Len(gCandles)].close
            stop  == sig.risk.initial_stop
            tp1   == sig.risk.take_profits[1].price
            tp2   == sig.risk.take_profits[2].price
        IN  /\ sig.side = "long"
            /\ sig.entry.type = "market"
            /\ Len(sig.risk.take_profits) = 2
            /\ tp1 = entry + (entry - stop)
            /\ tp2 = entry + 2 * (entry - stop)
            /\ stop < entry /\ entry < tp1 /\ tp1 < tp2
            /\ sig.risk.take_profits[1].size_pct = 5
            /\ sig.risk.take_profits[2].size_pct = 5

\* A returned signal whose stop comes from the oldest bar of the 10-bar lookback.
C16_Witness ==
    /\ gOut.out = "signal"
    /\ gOut.signal.risk.initial_stop = 6
    /\ gOut.signal.risk.take_profits[2].price = 21

(***************************************************************************)
(* Properties of the RiskPlan constructor.                                 *)
(***************************************************************************)
PlanConstructed == pOut.state = "done"

WrongCount == Len(pArgs.take_profits) # 2

WrongSum == SumSizePct(pArgs.take_profits) # 10

CycleOver == cPc = "done"

GeneratorGaveNone == cLoc.raw.out = "none"

GeneratorGaveSignal == cLoc.raw.out = "signal"

GateAccepted == cLoc.risked.out = "signal"

GateRejected == cLoc.risked.out = "none"

\* The queue or the ledger failed under the cycle.
WriteFailed == cResult.error \in {"ConnectionError", "OSError"}

\* C18: the status mapping.  With the candle source, the queue and the ledger
\* working, run_cycle returns no_trade exactly when the generator yields no signal,
\* filtered exactly when it yields one and the gate rejects it, preview exactly when
\* the gate accepts and preview is set, published exactly when the gate accepts and
\* preview is not set; the symbol of the result is the uppercased override if
\* given, else the (uppercased) configured symbol.
C18_StatusMapping ==
    (CycleOver /\ ~WriteFailed) =>
        /\ cResult.kind = "returned"
        /\ cResult.status \in {"no_trade", "filtered", "preview", "published"}
        /\ cResult.symbol = Upper(IF cIn.override # "" THEN cIn.override ELSE cIn.cfg.symbol)
        /\ cResult.status = "no_trade" <=> GeneratorGaveNone
        /\ cResult.status = "filtered" <=> (GeneratorGaveSignal /\ GateRejected)
        /\ cResult.status = "preview" <=> (GateAccepted /\ cIn.preview)
        /\ cResult.status = "published" <=> (GateAccepted /\ ~cIn.preview)

\* C19: preview writes nothing.  No step of a run_cycle call with preview set
\* changes the Redis list, the decision log or the results log, and the call makes
\* no publish and no append_decision, whatever the generator and the gate return.
C19_PreviewWritesNothing ==
    [][(cPc # "idle" /\ cIn.preview /\ cIn' = cIn) =>
          /\ queue' = queue
          /\ decisionLog' = decisionLog
          /\ resultsLog' = resultsLog
          /\ cOps' = <<>>]_vars

\* A preview cycle that passed the gate has returned "preview", in a run where an
\* earlier cycle had published: list and log are as that earlier cycle left them.
C19_Witness ==
    /\ cIn.preview
    /\ cResult.status = "preview"
    /\ GateAccepted
    /\ Len(queue) = 1
    /\ queue = cStart.queue
    /\ decisionLog = cStart.log

\* C20: writes only on acceptance, and last.  A cycle writes only after the
\* generator returned a signal and the gate accepted it; a cycle that ended
\* no_trade or filtered, or was stopped before the publish step, has written
\* neither to the list nor to the log; a published cycle has made exactly one
\* publish followed by exactly one append_decision of the same signal, with
\* entry_price the close of the last candle.
C20_WritesLastOnAcceptance ==
    LET sig  == cLoc.risked.signal
        last == cLoc.candles[Len(cLoc.candles)].close
    IN  cPc # "idle" =>
        /\ cOps # <<>> => (GeneratorGaveSignal /\ GateAccepted)
        /\ cOps = <<>> => (queue = cStart.queue /\ decisionLog = cStart.log)
        /\ cResult.status \in {"no_trade", "filtered"} => cOps = <<>>
        /\ (cPc = "stopped" /\ cLoc.at \in {"config", "fetch", "generate", "gate", "write"})
              => cOps = <<>>
        /\ cResult.status = "published" =>
              /\ cOps = << WriteOp("publish", sig, 0), WriteOp("append", sig, last) >>
              /\ queue = LPush(cStart.queue, JsonDumps(sig))
              /\ decisionLog = AppendDecisionTo(cStart.log, sig, last)

\* The second of two published cycles has returned.
C20_Witness ==
    /\ cResult.status = "published"
    /\ Len(cOps) = 2
    /\ Len(queue) = 2
    /\ Len(decisionLog.rows) = 3

\* C21: every cycle ends in exactly one of no_trade, filtered, published, preview,
\* publish_failed.  No failure of a stage leaves run_cycle as an exception: the call
\* returns one structured result, and a signal that passed the gate but could not be
\* published or logged is reported as publish_failed.
C21_FailuresContained ==
    CycleOver =>
        /\ cResult.kind = "returned"
        /\ cResult.status \in {"no_trade", "filtered", "published", "preview", "publish_failed"}
        /\ (GateAccepted /\ ~cIn.preview /\ Len(cOps) < 2) => cResult.status = "publish_failed"
        /\ cResult.status = "publish_failed" => GateAccepted

\* C25: same candle window within a cycle.  The call run_cycle makes to the
\* generator completes without error: it ends in None or in a signal, which was
\* derived from the window the driver fetched.
C25_GeneratorCallCompletes ==
    (cIn.generator = "module" /\ cLoc.raw # NoReturn) =>
        /\ cLoc.raw.out \in {"none", "signal"}
        /\ cLoc.raw.out = "signal" =>
              cLoc.raw = GenerateSignal(cLoc.symbol, cLoc.candles, cLoc.raw.signal.decision_id,
                                        cLoc.raw.signal.timestamp)

\* max_capital_pct is a fraction strictly between 0 and 1 (hundredths).
SizingValid(signal) == signal.risk.max_capital_pct > 0 /\ signal.risk.max_capital_pct < 100

\* C27: the sizing invariant survives the gate.  Every signal apply_risk returns,
\* and so every signal the cycle publishes, has max_capital_pct strictly between 0
\* and 1, whatever max_capital_pct the configuration holds.
C27_SizingSurvivesGate ==
    /\ GateAccepted => SizingValid(cLoc.risked.signal)
    /\ \A k \in 1..Len(cOps) : cOps[k].op = "publish" => SizingValid(cOps[k].signal)

\* The decision log holds a row for the decision_id.
HasDecisionRow(log, decision_id) ==
    \E k \in 1..Len(log.rows) :
        log.rows[k] # DECISION_HEADERS /\ log.rows[k][1] = Text(decision_id)

\* C30: queue and ledger stay consistent.  At the end of every run_cycle call, a
\* signal the call published is in the list only if the decision log holds the row
\* of its decision_id, also when append_decision failed after the publish.
C30_QueueLedgerConsistent ==
    CycleOver =>
        \A k \in 1..Len(cOps) :
            (cOps[k].op = "publish" /\ queue # <<>> /\ queue[1] = JsonDumps(cOps[k].signal))
                => HasDecisionRow(decisionLog, cOps[k].signal.decision_id)

(***************************************************************************)
(* Properties of get_candles.                                              *)
(***************************************************************************)
CandlesReturned == dOut.ok

\* C22: the candle count bound.  For every limit >= 1, get_candles(symbol, limit)
\* returns n candles with min(limit, 50) <= n <= limit.
C22_CountBound ==
    CandlesReturned =>
        /\ Min2(dIn.limit, MIN_CANDLES) <= Len(dOut.candles)
        /\ Len(dOut.candles) <= dIn.limit

\* C23: the candle invariants.  Every series get_candles returns has strictly
\* ascending timestamps five minutes apart, and each of its candles has
\* low <= open <= high, low <= close <= high and volume > 0.
C23_CandleInvariants ==
    CandlesReturned =>
        /\ \A k \in 1..(Len(dOut.candles) - 1) :
               dOut.candles[k + 1].timestamp - dOut.candles[k].timestamp = INTERVAL
        /\ \A k \in 1..Len(dOut.candles) :
               LET c == dOut.candles[k]
               IN  /\ c.low <= c.open /\ c.open <= c.high
                   /\ c.low <= c.close /\ c.close <= c.high
                   /\ c.volume > 0

(***************************************************************************)
(* Order of delivery on the sequential bus.                                *)
(***************************************************************************)
\* The indexes (1 is the head) of the fresh signals for the symbol in a list.
FreshSignals(q, symbol, nowT, max_age_sec) ==
    { k \in 1..Len(q) : FreshMatch(q[k], symbol, nowT, max_age_sec) /\ ModelValidate(q[k]).ok }

\* C24: latest-first delivery.  publish pushes to the front; a fetch for S on a list
\* holding fresh signals for S returns the one nearest the front, the most recently
\* published, and removes that entry alone, so that repeated fetches return the
\* fresh signals in reverse order of publication, each once, and two entries of one
\* signal are delivered by two fetches.
C24_LatestFirst ==
    [][ /\ Publish => (Len(queue') = Len(queue) + 1 /\ Tail(queue') = queue)
        /\ Fetch =>
             LET fresh == FreshSignals(queue, call'.symbol, now, call'.max_age_sec)
                 first == CHOOSE k \in fresh : \A j \in fresh : k <= j
             IN  fresh # {} =>
                   /\ ret' = RetSignal(ModelValidate(queue[first]).sig)
                   /\ Len(queue') = Len(queue) - 1
                   /\ \E k \in 1..Len(queue) : queue[k] = queue[first] /\ queue' = RemoveAt(queue, k)
      ]_vars

(***************************************************************************)
(* The generator's signal at the gate.                                     *)
(***************************************************************************)
GateCalledOnGenerated == gGate.out \notin {"idle", "pending"}

\* C26: the generator's output has reward/risk exactly 1 at the gate.  For every
\* window on which generate_signal returns a signal, apply_risk on that signal and
\* window finds tp1 one stop distance above the entry, RR = 1, and rejects the
\* signal for every min_rr > 1, the default 1.5 among them.
C26_GeneratedRRIsOne ==
    GateCalledOnGenerated =>
        LET entry_price == gCandles[Len(gCandles)].close
            reward   == gOut.signal.risk.take_profits[1].price - entry_price
            distance == entry_price - gOut.signal.risk.initial_stop
        IN  /\ distance > 0
            /\ reward = distance
            /\ gGate.min_rr > 10 => gGate.out = "none"

\* The gate has rejected a generated signal at the default min_rr of 1.5 that it
\* accepts at min_rr = 1.
C26_Witness ==
    /\ GateCalledOnGenerated
    /\ gGate.min_rr = RISK_DEFAULT.min_rr
    /\ gGate.out = "none"
    /\ ApplyRisk(gOut.signal, gCandles, GenGateDict(10)).out = "signal"

(***************************************************************************)
(* Consumers scanning while the list changes.                              *)
(***************************************************************************)
\* C28: no missed delivery under concurrent queue changes.  A fetch for S that
\* began with a fresh entry for S in the list, while no other consumer fetches S,
\* does not return None, whatever publishes and fetches of other symbols come
\* between its llen and its lindex reads.
C28_NoMissedDelivery ==
    \A c \in Consumers :
        ( /\ pc[c] = "idle" /\ calls[c] = 1
          /\ loc[c].had
          /\ \A o \in Consumers \ {c} : loc[o].symbol # loc[c].symbol )
        => loc[c].ret # RetNone

(***************************************************************************)
(* The decision log under two writing processes.                           *)
(***************************************************************************)
WritersDone == \A w \in Writers : wPc[w] = "idle"

\* C29: the header is written once under concurrent writers.  With every append
\* atomic, after any interleaving of the append_decision calls of two processes on a
\* log that did not exist, the file has one header line, as its first line, and one
\* data line per call.
C29_HeaderOnceConcurrent ==
    (WritersDone /\ wCalls["w1"] + wCalls["w2"] >= 1) =>
        HeaderOnce(decisionLog, DECISION_HEADERS, wCalls["w1"] + wCalls["w2"])

============================================================================
